---- MODULE Spec2Model ----
(***************************************************************************)
(* State-machine model of lib/Dongle.js (csllc/cs1816-demo): the BLE       *)
(* session, the watcher callback table, the watch / unwatch / superwatch   *)
(* promise chains, the routing of status notifications and the chunked     *)
(* write to the transparent UART.                                          *)
(*                                                                         *)
(* Every action is one turn of the JavaScript event loop: an application   *)
(* call (the synchronous part of a method) or the completion callback of   *)
(* one BLE primitive or of one messaging-client request.                   *)
(***************************************************************************)
EXTENDS Integers, Sequences, FiniteSets

VARIABLES
  peripheral,       \* "present" | "null"            (this.peripheral)
  bleState,         \* this.peripheral.state, kept by the BLE stack
  connected,        \* this.connected
  connPc,           \* where the connect() of this object stands
  discPending,      \* a disconnect() waits for the BLE stack's callback
  deviceType,       \* this.deviceType: "null" | "" | "CS1816"
  txCharacteristic, \* this.txCharacteristic is set
  statusChar,       \* the slots i with this.statusChar[i] set
  superwatchChar,   \* this.superwatchChar is set
  listening,        \* the slots whose characteristic has the onStatus handler
  rxReady,          \* rx has its 'data' handler and is subscribed: replies arrive
  cbDefined,        \* this.watcherCb is an array (undefined before inspectDevice)
  watcherCb,        \* this.watcherCb[i]: "undefined" | "null" | a callback
  subscribed,       \* hardware side: status slots with notifications enabled
  superSub,         \* hardware side: superwatch notifications enabled
  pendUnsub,        \* slots with a detached unsubscribe of unwatchAll pending
  calls,            \* the application calls in flight, in issue order
  settled,          \* the call that settled, threw or was left hanging in this turn
  event,            \* the characteristic data event handled in this turn
  invoked,          \* the user callbacks invoked in this turn, in order
  txWrites,         \* the characteristic writes issued by write() in this turn
  nOps,             \* the watch-family calls the application has made
  nConn,            \* the connect() calls the application has made
  sessionEvent,     \* what connect() / disconnect() emitted or settled with in this turn
  txPending,        \* the chunk writes handed to the BLE stack and not completed: their send
  nSends,           \* the write() calls that have chunk writes pending
  commandQueue,     \* this.commandQueue
  commandSequence,  \* this.commandSequence
  waited,           \* timeout periods the head of commandQueue has been waiting
  identity,         \* the device: what its identity characteristics hold
  idChars,          \* this.systemIdChar .. this.manufacturerNameChar were found
  infoReads,        \* per pending readDongleInfo(), the read results it has so far
  infoSettled,      \* what readDongleInfo() did in this turn
  emitted,          \* the 'connect' and 'open' events since connect() was last called
  store,            \* the remote devices: the memory of each unit and the dongle's flash page
  memCalls,         \* the memory and object requests handed to the messaging client, oldest first
  memSettled,       \* the memory or object call settled in this turn
  expect,           \* per byte and for the page, what the last resolved write left there
  batch             \* the setWatchers() call in flight, or the one that ended in this turn

vars == <<peripheral, bleState, connected, connPc, discPending, deviceType,
          txCharacteristic, statusChar, superwatchChar, listening, rxReady, cbDefined,
          watcherCb, subscribed, superSub, pendUnsub, calls, settled, event,
          invoked, txWrites, nOps, nConn, sessionEvent, txPending, nSends,
          commandQueue, commandSequence, waited,
          identity, idChars, infoReads, infoSettled, emitted,
          store, memCalls, memSettled, expect, batch>>

txVars == <<txPending, nSends>>

queueVars == <<commandQueue, commandSequence, waited>>

connVars == <<peripheral, bleState, connected, connPc, discPending, deviceType,
              txCharacteristic, statusChar, superwatchChar, listening, rxReady>>

-----------------------------------------------------------------------------
(* Program constants *)

numStatus == 20
SLOT_SUPERWATCH == 16
OP_CONFIGURE == 0
OP_KEYSWITCH == 1
OP_WATCH == 2
OP_UNWATCH == 3
OP_UNWATCH_ALL == 4
OP_SUPERWATCH == 5
DongleId == 254
chunkSize == 20
MaxSuperwatch == 25

(* Bounds of the model *)

MaxCalls == 2
MaxOps == 2
MaxConnects == 2
MaxDataLen == 45
MaxSends == 2
MaxQueue == 258
MaxAddress == 1

MaxWatchers == 2

MaxWait == 2

-----------------------------------------------------------------------------
(* Inputs *)

Callbacks == {"cb1", "cb2"}
Omitted == [given |-> FALSE, value |-> 0]
Given(n) == [given |-> TRUE, value |-> n]
BadSlot == numStatus
SlotInputs == {0, SLOT_SUPERWATCH, BadSlot}
StatusSlots == 0 .. (numStatus - 1)
TableIndex == 0 .. numStatus
LiveSlots == SlotInputs \cap StatusSlots
WatchInputs ==
  { [id |-> 1, address |-> 95,  length |-> Omitted,  cb |-> "cb1"],
    [id |-> 2, address |-> 868, length |-> Given(2), cb |-> "cb2"] }
SuperwatchInputs ==
  { [id |-> 1, addresses |-> << >>,            cb |-> "cb1"],
    [id |-> 1, addresses |-> <<46, 100, 56>>,  cb |-> "cb2"],
    [id |-> 1, addresses |-> [i \in 1 .. (MaxSuperwatch + 1) |-> 4 + i], cb |-> "cb1"] }
Payloads == {"d1", "d2"}
NoArgs == [id |-> 0, address |-> 0, length |-> Omitted]
NoEvent == [kind |-> "none", slot |-> 0, data |-> "d1"]

-----------------------------------------------------------------------------
(* Helpers *)

Byte(x) == x % 256

IsFunction(v) == v \in Callbacks

isConnected ==
  /\ peripheral = "present"
  /\ bleState = "connected"
  /\ connected

SlotValidOffByOne(slot) == slot <= numStatus
SlotValid(slot) == slot < numStatus

DefaultLength(length) == IF length.given THEN length.value ELSE 1

WatchPayloadSwapped(slot, id, address, length) ==
  << Byte(slot), Byte(id), Byte(address), Byte(address \div 256),
     Byte(DefaultLength(length)) >>
WatchPayload(slot, id, address, length) ==
  << Byte(slot), Byte(id), Byte(address \div 256), Byte(address % 256),
     Byte(DefaultLength(length)) >>

RECURSIVE AddrBytes(_)
AddrBytes(addresses) ==
  IF addresses = << >> THEN << >>
  ELSE << Byte(Head(addresses) \div 256), Byte(Head(addresses) % 256) >>
       \o AddrBytes(Tail(addresses))

SuperwatchPayload(id, addresses) ==
  << SLOT_SUPERWATCH, Byte(id) >> \o AddrBytes(addresses)

Command(unit, op, payload) == [unit |-> unit, op |-> op, payload |-> payload]

(* The slots of the callback table a call reads or writes. *)
Touches(c, s) ==
  \/ c.op \in {"watch", "unwatch"} /\ c.slot = s
  \/ c.op = "superwatch" /\ s = SLOT_SUPERWATCH
  \/ c.op = "unwatchAll" /\ s \in StatusSlots

Finished(c) == c.pc \in {"resolved", "rejected", "threw", "hung"}

NoAfter == "null"

(* What the messaging client hands to onComplete(err, response). *)
Reply(err, exceptionCode, values) ==
  [got |-> TRUE, err |-> err, exceptionCode |-> exceptionCode, values |-> values]

NoReply == [got |-> FALSE, err |-> FALSE, exceptionCode |-> 0, values |-> << >>]

Replies ==
  { Reply(FALSE, 0, << 0 >>),     \* status 0
    Reply(FALSE, 0, << 1 >>),     \* another status
    Reply(FALSE, 0, << >>),       \* a response with no values
    Reply(FALSE, 2, << >>),       \* an exception response
    Reply(TRUE, 0, << >>) }       \* an error of the messaging client, a timeout

NoCall ==
  [ op |-> "none", slot |-> 0, id |-> 0, address |-> 0, length |-> Omitted,
    cb |-> "null", addrs |-> << >>, pc |-> "none", err |-> "none", sent |-> << >>,
    nunsub |-> 0, nsub |-> 0, clean |-> FALSE, after |-> NoAfter, reply |-> NoReply ]

SetAt(seq, i, v) == [seq EXCEPT ![i] = v]

RemoveAt(seq, i) == [j \in 1 .. (Len(seq) - 1) |-> IF j < i THEN seq[j] ELSE seq[j + 1]]

(* Another operation begins on the slots of `n`: the calls already there are
   no longer the only ones to have acted on their slot. *)
Disturb(cs, n) ==
  [j \in 1 .. Len(cs) |->
     IF \E s \in TableIndex : Touches(cs[j], s) /\ Touches(n, s)
       THEN [cs[j] EXCEPT !.clean = FALSE] ELSE cs[j]]

DisturbAll(cs) == [j \in 1 .. Len(cs) |-> [cs[j] EXCEPT !.clean = FALSE]]

Alone(n) ==
  /\ \A j \in 1 .. Len(calls) :
        ~ \E s \in TableIndex : Touches(calls[j], s) /\ Touches(n, s)
  /\ \A s \in pendUnsub : ~ Touches(n, s)

NewCall(op, slot, args, cb, addrs) ==
  [ op |-> op, slot |-> slot, id |-> args.id, address |-> args.address,
    length |-> args.length, cb |-> cb, addrs |-> addrs,
    pc |-> "start", err |-> "none", sent |-> << >>, nunsub |-> 0, nsub |-> 0,
    clean |-> TRUE, after |-> NoAfter, reply |-> NoReply ]

(* The callback of the watch on the slot of `n` that resolved in the turn
   before this one, when that watch was the only call on the slot and `n` is
   the only one since. *)
After(n) ==
  IF /\ settled.op = "watch"
     /\ settled.pc = "resolved"
     /\ settled.clean
     /\ Alone(n)
     /\ n.op \in {"watch", "unwatch"}
     /\ n.slot = settled.slot
    THEN settled.cb
    ELSE NoAfter

(* A call begins: it joins the calls in flight unless its synchronous part
   already ended it. *)
Enter(n) ==
  /\ nOps' = nOps + 1
  /\ UNCHANGED nConn
  /\ LET m == [n EXCEPT !.clean = Alone(n), !.after = After(n)] IN
       IF Finished(m)
         THEN calls' = Disturb(calls, m) /\ settled' = m
         ELSE calls' = Append(Disturb(calls, m), m) /\ settled' = NoCall

(* Call i moves on: it leaves the calls in flight when it has ended. *)
Update(i, c) ==
  /\ UNCHANGED <<nOps, nConn>>
  /\ IF Finished(c)
       THEN calls' = RemoveAt(calls, i) /\ settled' = c
       ELSE calls' = SetAt(calls, i, c) /\ settled' = NoCall

(* The application makes a call: at most MaxCalls are in flight, and none is
   made while its own connect() is still running (it awaits connect()). *)
CanCall == Len(calls) < MaxCalls /\ nOps < MaxOps /\ connPc = "idle"

Quiet == event' = NoEvent /\ invoked' = << >> /\ txWrites' = << >>

Idle == Quiet /\ settled' = NoCall /\ UNCHANGED nOps

(* A turn in which connect() and disconnect() emit and settle nothing, and
   the transport and the command queue are left alone. *)
NoInfo == [pc |-> "none", value |-> << >>]

(* A turn in which readDongleInfo() does nothing. *)
InfoAside == infoSettled' = NoInfo /\ UNCHANGED <<identity, idChars, infoReads>>

NoMem ==
  [ fn |-> "none", unit |-> 0, address |-> 0, length |-> 0, data |-> << >>,
    pc |-> "none", value |-> << >> ]

(* A turn in which no memory or object call is made or completed. *)
MemAside == memSettled' = NoMem /\ UNCHANGED <<store, memCalls, expect>>

NoBatch ==
  [ pc |-> "none", list |-> << >>, outcome |-> "none", err |-> "none", now |-> FALSE,
    unsubLeft |-> {}, unsubOk |-> {}, unsubFailed |-> {}, stuck |-> FALSE,
    sent |-> << >>, reply |-> NoReply, subLeft |-> {}, subIssued |-> {} ]

(* A setWatchers() record one turn later: one with nothing left to happen is
   forgotten. *)
Rested(b) == IF b.pc \in {"none", "done"} THEN NoBatch ELSE [b EXCEPT !.now = FALSE]

(* A turn in which setWatchers() does nothing. *)
BatchAside == batch' = Rested(batch)

Aside == InfoAside /\ MemAside /\ BatchAside

(* emit(name) as a listener of 'connect' and 'open' hears it: the pass-through
   of the peripheral's 'connect' and the 'open' of connect(). *)
emitOpenOnly(log, name) ==
  IF name = "open" THEN Append(log, name) ELSE log
emit(log, name) ==
  IF name \in {"connect", "open"} THEN Append(log, name) ELSE log

Heard == emitted' = emit(emitted, sessionEvent')

Rest == sessionEvent' = "none" /\ UNCHANGED <<txVars, queueVars>> /\ Aside /\ Heard

(* Two devices, by what their seven identity characteristics hold: the
   system id as bytes, the other six as text. *)
Device1 ==
  [ systemId |-> << 1, 2 >>, modelNumber |-> << "C", "S" >>,
    serialNumber |-> << "1" >>, firmwareRevision |-> << "2" >>,
    hardwareRevision |-> << "A" >>, softwareRevision |-> << "1", "2" >>,
    manufacturerName |-> << "C" >> ]

Device2 ==
  [ systemId |-> << 2, 1 >>, modelNumber |-> << "S", "C" >>,
    serialNumber |-> << "2" >>, firmwareRevision |-> << "1" >>,
    hardwareRevision |-> << "C" >>, softwareRevision |-> << >>,
    manufacturerName |-> << "A", "S" >> ]

Devices == {Device1, Device2}

(* The remote memory: the units on the bus and the addresses of each, the
   bytes written to them, and the flash page of the dongle, shortened to
   PageLen bytes. *)
Units == {1, 2}

Addresses == 0 .. MaxAddress

Cells == Units \X Addresses

PageLen == 2

OriginalPage == << 18, 52 >>

Filled(b) == [k \in 1 .. PageLen |-> b]

InDoubt == -1

-----------------------------------------------------------------------------
(* The state after construction, whichever device is in range. *)
Start ==
  /\ peripheral = "present"
  /\ bleState = "disconnected"
  /\ connected = FALSE
  /\ connPc = "idle"
  /\ discPending = FALSE
  /\ deviceType = "null"
  /\ txCharacteristic = FALSE
  /\ statusChar = {}
  /\ superwatchChar = FALSE
  /\ listening = {}
  /\ rxReady = FALSE
  /\ cbDefined = FALSE
  /\ watcherCb = [i \in TableIndex |-> "undefined"]
  /\ subscribed = {}
  /\ superSub = FALSE
  /\ pendUnsub = {}
  /\ calls = << >>
  /\ settled = NoCall
  /\ event = NoEvent
  /\ invoked = << >>
  /\ txWrites = << >>
  /\ nOps = 0
  /\ nConn = 0
  /\ sessionEvent = "none"
  /\ txPending = << >>
  /\ nSends = 0
  /\ commandQueue = << >>
  /\ commandSequence = 0
  /\ waited = 0
  /\ idChars = FALSE
  /\ infoReads = << >>
  /\ infoSettled = NoInfo
  /\ emitted = << >>
  /\ store = [mem |-> [c \in Cells |-> 0], page |-> OriginalPage]
  /\ memCalls = << >>
  /\ memSettled = NoMem
  /\ expect = [mem |-> [c \in Cells |-> InDoubt], page |-> << >>]
  /\ batch = NoBatch

Init == Start /\ identity = Device1

-----------------------------------------------------------------------------
(* Session: connect(), inspectDevice(), disconnect(), link loss *)

DiscoverOutcomes ==
  { [err |-> FALSE, mandatory |-> TRUE,  tx |-> TRUE,  slots |-> StatusSlots,
     super |-> TRUE,  info |-> TRUE],
    [err |-> FALSE, mandatory |-> TRUE,  tx |-> TRUE,  slots |-> StatusSlots \ {0},
     super |-> FALSE, info |-> FALSE],
    [err |-> FALSE, mandatory |-> FALSE, tx |-> FALSE, slots |-> StatusSlots,
     super |-> TRUE,  info |-> TRUE],
    [err |-> TRUE,  mandatory |-> FALSE, tx |-> FALSE, slots |-> {},
     super |-> FALSE, info |-> FALSE] }

ReadOutcomes == {"CS1816", "", "undefined"}

(* connect(): the BLE connection is requested. *)
ConnectCall ==
  /\ peripheral = "present"
  /\ bleState = "disconnected"
  /\ connPc = "idle"
  /\ ~ discPending
  /\ nConn < MaxConnects
  /\ nConn' = nConn + 1
  /\ bleState' = "connecting"
  /\ connPc' = "bleConnect"
  /\ Idle
  /\ sessionEvent' = "none"
  /\ emitted' = << >>
  /\ Aside
  /\ UNCHANGED <<txVars, queueVars>>
  /\ UNCHANGED <<peripheral, connected, discPending, deviceType, txCharacteristic,
                 statusChar, superwatchChar, listening, rxReady, cbDefined,
                 watcherCb, subscribed, superSub, pendUnsub, calls>>

(* The callback of peripheral.connect: on success 'connect' is passed through
   and inspectDevice() starts, clearing the characteristics and the callback
   table before it asks for discovery. *)
BleConnectDone(ok) ==
  /\ connPc = "bleConnect"
  /\ IF ok
       THEN /\ bleState' = "connected"
            /\ connPc' = "discover"
            /\ statusChar' = {}
            /\ superwatchChar' = FALSE
            /\ listening' = {}
            /\ rxReady' = FALSE
            /\ cbDefined' = TRUE
            /\ watcherCb' = [i \in TableIndex |-> "undefined"]
            /\ calls' = DisturbAll(calls)
       ELSE /\ bleState' = "disconnected"
            /\ connPc' = "idle"
            /\ UNCHANGED <<statusChar, superwatchChar, listening, rxReady,
                           cbDefined, watcherCb, calls>>
  /\ sessionEvent' = IF ok THEN "connect" ELSE "ConnectError"
  /\ Aside
  /\ Heard
  /\ UNCHANGED <<txVars, queueVars>>
  /\ Idle
  /\ UNCHANGED nConn
  /\ UNCHANGED <<peripheral, connected, discPending, deviceType, txCharacteristic,
                 subscribed, superSub, pendUnsub>>

(* The callback of discoverSomeServicesAndCharacteristics. *)
DiscoverDone(o) ==
  /\ connPc = "discover"
  /\ bleState = "connected"
  /\ IF o.err
       THEN /\ connPc' = "idle"
            /\ UNCHANGED <<statusChar, superwatchChar, txCharacteristic, idChars>>
       ELSE /\ statusChar' = o.slots
            /\ superwatchChar' = o.super
            /\ txCharacteristic' = o.tx
            /\ idChars' = o.info
            /\ connPc' = IF o.mandatory THEN "read" ELSE "idle"
  /\ calls' = DisturbAll(calls)
  /\ sessionEvent' = IF o.err THEN "DiscoverError"
                     ELSE IF o.mandatory THEN "none" ELSE "IncompatibleDevice"
  /\ infoSettled' = NoInfo
  /\ UNCHANGED <<identity, infoReads>>
  /\ MemAside
  /\ BatchAside
  /\ Heard
  /\ UNCHANGED <<txVars, queueVars>>
  /\ Idle
  /\ UNCHANGED nConn
  /\ UNCHANGED <<peripheral, bleState, connected, discPending, deviceType,
                 listening, rxReady, cbDefined, watcherCb, subscribed, superSub,
                 pendUnsub>>

(* The reads of the product, serial and fault characteristics, then the
   registration of the data handlers, which also nulls the callback of every
   slot whose characteristic was found. *)
ReadDone(product) ==
  /\ connPc = "read"
  /\ bleState = "connected"
  /\ IF product = "undefined"
       THEN /\ connPc' = "idle"
            /\ UNCHANGED <<deviceType, watcherCb, listening>>
       ELSE /\ deviceType' = product
            /\ watcherCb' = [i \in TableIndex |->
                               IF i \in statusChar THEN "null" ELSE watcherCb[i]]
            /\ listening' = statusChar
            /\ connPc' = "subscribe"
  /\ calls' = DisturbAll(calls)
  /\ sessionEvent' = IF product = "undefined" THEN "ReadError" ELSE "none"
  /\ Aside
  /\ Heard
  /\ UNCHANGED <<txVars, queueVars>>
  /\ Idle
  /\ UNCHANGED nConn
  /\ UNCHANGED <<peripheral, bleState, connected, discPending, txCharacteristic,
                 statusChar, superwatchChar, rxReady, cbDefined, subscribed,
                 superSub, pendUnsub>>

(* connect() marks the session Ready: inspectDevice() resolved and left a
   device type. *)
ValidatedAlways(ok, type) == TRUE
Validated(ok, type) == ok /\ type # "" /\ type # "null"

(* The subscriptions to the fault, UART control and rx characteristics, then
   the end of connect(): Ready only with a device type. *)
SubscribeDone(ok) ==
  /\ connPc = "subscribe"
  /\ bleState = "connected"
  /\ connPc' = "idle"
  /\ connected' = IF Validated(ok, deviceType) THEN TRUE ELSE connected
  /\ rxReady' = ok
  /\ sessionEvent' = IF Validated(ok, deviceType) THEN "open"
                     ELSE IF ok THEN "UnknownDeviceType" ELSE "SubscribeError"
  /\ Aside
  /\ Heard
  /\ UNCHANGED <<txVars, queueVars>>
  /\ Idle
  /\ UNCHANGED nConn
  /\ UNCHANGED <<peripheral, bleState, discPending, deviceType, txCharacteristic,
                 statusChar, superwatchChar, listening, cbDefined, watcherCb,
                 subscribed, superSub, pendUnsub, calls>>

(* Call c waits for onComplete of the messaging client. *)
AwaitsCommand(c) == c.pc \in {"cmd", "cmdLost"}

(* The calls in flight when the link goes: one waiting for a BLE callback
   never hears of it and does nothing more; one waiting for the reply to a
   command will see the request time out. *)
Orphan(cs) ==
  LET left == SelectSeq(cs, AwaitsCommand) IN
    [j \in 1 .. Len(left) |-> [left[j] EXCEPT !.clean = FALSE, !.pc = "cmdLost"]]

(* The setWatchers() call in flight when the link goes: waiting for a BLE
   callback it does nothing more, waiting for the reply it will time out. *)
OrphanBatch(b) ==
  IF b.pc \in {"cmd", "cmdLost"} THEN [b EXCEPT !.pc = "cmdLost", !.now = FALSE] ELSE NoBatch

(* The BLE link is lost: the stack marks the peripheral disconnected and the
   device drops its notifications; 'disconnect' is only passed through. *)
LinkLoss ==
  /\ bleState = "connected"
  /\ ~ discPending
  /\ bleState' = "disconnected"
  /\ connPc' = "idle"
  /\ rxReady' = FALSE
  /\ subscribed' = {}
  /\ superSub' = FALSE
  /\ pendUnsub' = {}
  /\ calls' = Orphan(calls)
  /\ sessionEvent' = "disconnect"
  /\ infoReads' = << >>
  /\ infoSettled' = NoInfo
  /\ UNCHANGED <<identity, idChars>>
  /\ MemAside
  /\ batch' = OrphanBatch(batch)
  /\ Heard
  /\ txPending' = << >>
  /\ nSends' = 0
  /\ UNCHANGED queueVars
  /\ Idle
  /\ UNCHANGED nConn
  /\ UNCHANGED <<peripheral, connected, discPending, deviceType, txCharacteristic,
                 statusChar, superwatchChar, listening, cbDefined, watcherCb>>

(* disconnect(): the BLE disconnection is requested. *)
DisconnectCall ==
  /\ peripheral = "present"
  /\ bleState # "disconnected"
  /\ ~ discPending
  /\ discPending' = TRUE
  /\ Idle
  /\ Rest
  /\ UNCHANGED nConn
  /\ UNCHANGED <<peripheral, bleState, connected, connPc, deviceType,
                 txCharacteristic, statusChar, superwatchChar, listening, rxReady,
                 cbDefined, watcherCb, subscribed, superSub, pendUnsub, calls>>

(* The fields disconnect() clears in the callback of peripheral.disconnect. *)
DisconnectFields ==
  /\ txCharacteristic' = FALSE
  /\ deviceType' = "null"
  /\ peripheral' = "null"
  /\ connected' = FALSE
  /\ UNCHANGED <<statusChar, superwatchChar, listening, cbDefined, watcherCb>>

DisconnectDone ==
  /\ discPending
  /\ discPending' = FALSE
  /\ bleState' = "disconnected"
  /\ connPc' = "idle"
  /\ DisconnectFields
  /\ rxReady' = FALSE
  /\ subscribed' = {}
  /\ superSub' = FALSE
  /\ pendUnsub' = {}
  /\ calls' = Orphan(calls)
  /\ sessionEvent' = "disconnected"
  /\ infoReads' = << >>
  /\ infoSettled' = NoInfo
  /\ UNCHANGED <<identity, idChars>>
  /\ MemAside
  /\ batch' = OrphanBatch(batch)
  /\ Heard
  /\ txPending' = << >>
  /\ nSends' = 0
  /\ UNCHANGED queueVars
  /\ Idle
  /\ UNCHANGED nConn

SessionStep ==
  \/ ConnectCall
  \/ \E ok \in BOOLEAN : BleConnectDone(ok)
  \/ \E o \in DiscoverOutcomes : DiscoverDone(o)
  \/ \E p \in ReadOutcomes : ReadDone(p)
  \/ \E ok \in BOOLEAN : SubscribeDone(ok)
  \/ LinkLoss
  \/ DisconnectCall
  \/ DisconnectDone

-----------------------------------------------------------------------------
(* The watch family: the synchronous part of each call *)

linkUp == bleState = "connected"

(* unsubscribe(characteristic): with no characteristic the promise is never
   settled; on a dead link the BLE callback never comes. *)
UnsubscribeIssue(c, present) ==
  IF ~ present THEN [c EXCEPT !.pc = "hung"]
  ELSE [c EXCEPT !.nunsub = @ + 1, !.pc = IF linkUp THEN "unsub" ELSE "hung"]

(* subscribe(characteristic): with no characteristic the executor throws,
   which rejects the promise. *)
SubscribeIssue(c, present) ==
  IF ~ present THEN [c EXCEPT !.pc = "rejected", !.err = "TypeError"]
  ELSE [c EXCEPT !.nsub = @ + 1, !.pc = IF linkUp THEN "sub" ELSE "hung"]

(* A request can be written and its reply received: write() needs the tx
   characteristic and isConnected(), the reply needs rx. *)
CanTransact == isConnected /\ txCharacteristic /\ rxReady

(* command(dest, id, values): the request is handed to the messaging client;
   one that cannot be written or answered times out. *)
CommandIssue(c, op, payload) ==
  [c EXCEPT !.sent = Append(@, Command(DongleId, op, payload)),
            !.pc = IF CanTransact THEN "cmd" ELSE "cmdLost"]

InstallKeepFirst(table, slot, cb) ==
  IF IsFunction(table[slot]) THEN table ELSE [table EXCEPT ![slot] = cb]
Install(table, slot, cb) == [table EXCEPT ![slot] = cb]

ClearNothing(table, slot) == table
Clear(table, slot) == [table EXCEPT ![slot] = "null"]

Threw(n) == [n EXCEPT !.pc = "threw", !.err = "TypeError"]

Rejected(n, err) == [n EXCEPT !.pc = "rejected", !.err = err]

(* watch(slot, id, address, length, cb) *)
WatchCall(slot, a, cb) ==
  /\ CanCall
  /\ LET n == NewCall("watch", slot, a, cb, << >>) IN
       IF SlotValid(slot)
         THEN IF cbDefined
                THEN /\ watcherCb' = Install(watcherCb, slot, cb)
                     /\ Enter(UnsubscribeIssue(n, slot \in statusChar))
                ELSE /\ Enter(Threw(n))
                     /\ UNCHANGED watcherCb
         ELSE /\ Enter(Rejected(n, "InvalidSlot"))
              /\ UNCHANGED watcherCb
  /\ Quiet
  /\ Rest
  /\ UNCHANGED <<connVars, cbDefined, subscribed, superSub, pendUnsub>>

(* unwatch(slot) *)
UnwatchCall(slot) ==
  /\ CanCall
  /\ LET n == NewCall("unwatch", slot, NoArgs, "null", << >>) IN
       IF SlotValid(slot)
         THEN IF cbDefined
                THEN /\ watcherCb' = Clear(watcherCb, slot)
                     /\ Enter(UnsubscribeIssue(n, slot \in statusChar))
                ELSE /\ Enter(Threw(n))
                     /\ UNCHANGED watcherCb
         ELSE /\ Enter(Rejected(n, "InvalidSlot"))
              /\ UNCHANGED watcherCb
  /\ Quiet
  /\ Rest
  /\ UNCHANGED <<connVars, cbDefined, subscribed, superSub, pendUnsub>>

(* superwatch(id, addresses, cb): no check of the number of addresses. *)
SuperwatchCall(id, addresses, cb) ==
  /\ CanCall
  /\ LET n == NewCall("superwatch", SLOT_SUPERWATCH,
                      [id |-> id, address |-> 0, length |-> Omitted], cb, addresses) IN
       IF cbDefined
         THEN /\ watcherCb' = Install(watcherCb, SLOT_SUPERWATCH, cb)
              /\ Enter(UnsubscribeIssue(n, superwatchChar))
         ELSE /\ Enter(Threw(n))
              /\ UNCHANGED watcherCb
  /\ Quiet
  /\ Rest
  /\ UNCHANGED <<connVars, cbDefined, subscribed, superSub, pendUnsub>>

(* unwatchAll(): one detached unsubscribe per slot, then UNWATCH_ALL.  Only
   the slots the model ever subscribes are tracked: unsubscribing a slot that
   never was subscribed changes nothing.  UnsubscribeEach counts the
   characteristic.unsubscribe calls of the loop, one per characteristic found. *)
UnsubscribeEachButFirst(chars) == Cardinality(chars \ {0})
UnsubscribeEach(chars) == Cardinality(chars)

UnwatchAllCall ==
  /\ CanCall
  /\ LET n == NewCall("unwatchAll", 0, NoArgs, "null", << >>) IN
       Enter(CommandIssue([n EXCEPT !.nunsub = UnsubscribeEach(statusChar)],
                                   OP_UNWATCH_ALL, << >>))
  /\ pendUnsub' = IF linkUp THEN pendUnsub \cup (statusChar \cap LiveSlots) ELSE pendUnsub
  /\ Quiet
  /\ Rest
  /\ UNCHANGED <<connVars, cbDefined, watcherCb, subscribed, superSub>>

(* configure(options) *)
ConfigureCall ==
  /\ CanCall
  /\ Enter(CommandIssue(NewCall("configure", 0, NoArgs, "null", << >>),
                                 OP_CONFIGURE, << >>))
  /\ Quiet
  /\ Rest
  /\ UNCHANGED <<connVars, cbDefined, watcherCb, subscribed, superSub, pendUnsub>>

(* keyswitch(state) *)
KeyswitchCall(state) ==
  /\ CanCall
  /\ Enter(CommandIssue(NewCall("keyswitch", 0, NoArgs, "null", << >>),
                                 OP_KEYSWITCH, << IF state THEN 1 ELSE 0 >>))
  /\ Quiet
  /\ Rest
  /\ UNCHANGED <<connVars, cbDefined, watcherCb, subscribed, superSub, pendUnsub>>

-----------------------------------------------------------------------------
(* The watch family: the completion callbacks *)

(* The callback of characteristic.unsubscribe for call i. *)
UnsubDone(i, ok) ==
  /\ i \in 1 .. Len(calls)
  /\ calls[i].pc = "unsub"
  /\ linkUp
  /\ LET c == calls[i] IN
       /\ IF ok
            THEN IF c.op = "superwatch"
                   THEN superSub' = FALSE /\ UNCHANGED subscribed
                   ELSE subscribed' = subscribed \ {c.slot} /\ UNCHANGED superSub
            ELSE UNCHANGED <<subscribed, superSub>>
       /\ Update(i,
            IF ~ ok THEN Rejected(c, "UnsubscribeFailed")
            ELSE IF c.op = "watch"
              THEN CommandIssue(c, OP_WATCH, WatchPayload(c.slot, c.id, c.address, c.length))
            ELSE IF c.op = "unwatch"
              THEN CommandIssue(c, OP_UNWATCH, << Byte(c.slot) >>)
            ELSE \* superwatch: the command is issued and not waited for
              SubscribeIssue([c EXCEPT !.sent = Append(@,
                                Command(DongleId, OP_SUPERWATCH,
                                        SuperwatchPayload(c.id, c.addrs)))],
                             superwatchChar))
  /\ Quiet
  /\ Rest
  /\ UNCHANGED <<connVars, cbDefined, watcherCb, pendUnsub>>

(* options.onComplete of command(): an exception response counts as an
   error, an error rejects, and otherwise only a first value of 0 resolves. *)
onCompleteAnyStatus(err, response) ==
  IF err \/ response.exceptionCode # 0 THEN "reject" ELSE "resolve"
onComplete(err, response) ==
  IF err \/ response.exceptionCode # 0
    THEN "reject"
    ELSE IF Len(response.values) > 0 /\ response.values[1] = 0
           THEN "resolve"
           ELSE "reject"

(* onComplete of the messaging client for the command of call i; a request
   that could not be written or answered completes with its timeout error. *)
CmdDone(i, reply) ==
  /\ i \in 1 .. Len(calls)
  /\ calls[i].pc \in {"cmd", "cmdLost"}
  /\ calls[i].pc = "cmdLost" => reply.err
  /\ LET c == [calls[i] EXCEPT !.reply = reply]
         ok == onComplete(reply.err, reply) = "resolve"
     IN
       Update(i,
            IF ~ ok THEN Rejected(c, "CommandFailed")
            ELSE IF c.op = "watch" THEN SubscribeIssue(c, c.slot \in statusChar)
            ELSE [c EXCEPT !.pc = "resolved"])
  /\ Quiet
  /\ Rest
  /\ UNCHANGED <<connVars, cbDefined, watcherCb, subscribed, superSub, pendUnsub>>

(* onComplete for the SUPERWATCH command of call i, which superwatch issued
   without returning its promise: the outcome settles a promise nobody waits
   for, and the call goes on as it was. *)
SuperCmdDone(i, reply) ==
  /\ i \in 1 .. Len(calls)
  /\ calls[i].op = "superwatch"
  /\ calls[i].pc = "sub"
  /\ ~ calls[i].reply.got
  /\ ~ CanTransact => reply.err
  /\ Update(i, [calls[i] EXCEPT !.reply = reply])
  /\ Quiet
  /\ Rest
  /\ UNCHANGED <<connVars, cbDefined, watcherCb, subscribed, superSub, pendUnsub>>

(* The callback of characteristic.subscribe for call i. *)
SubDone(i, ok) ==
  /\ i \in 1 .. Len(calls)
  /\ calls[i].pc = "sub"
  /\ linkUp
  /\ LET c == calls[i] IN
       /\ IF ok
            THEN IF c.op = "superwatch"
                   THEN superSub' = TRUE /\ UNCHANGED subscribed
                   ELSE subscribed' = subscribed \cup {c.slot} /\ UNCHANGED superSub
            ELSE UNCHANGED <<subscribed, superSub>>
       /\ Update(i,
            IF ok THEN [c EXCEPT !.pc = "resolved"] ELSE Rejected(c, "SubscribeFailed"))
  /\ Quiet
  /\ Rest
  /\ UNCHANGED <<connVars, cbDefined, watcherCb, pendUnsub>>

(* The callback of one of unwatchAll's detached unsubscribes. *)
DetachedUnsubDone(s, ok) ==
  /\ s \in pendUnsub
  /\ linkUp
  /\ pendUnsub' = pendUnsub \ {s}
  /\ subscribed' = IF ok THEN subscribed \ {s} ELSE subscribed
  /\ Idle
  /\ Rest
  /\ UNCHANGED nConn
  /\ UNCHANGED <<connVars, cbDefined, watcherCb, superSub, calls>>

-----------------------------------------------------------------------------
(* Notifications *)

Invocation(cb, data, slot) == [cb |-> cb, data |-> data, slot |-> slot]

onStatusAnyValue(slot, data) ==
  IF slot < numStatus THEN << Invocation(watcherCb[slot], data, slot) >> ELSE << >>
onStatusFirstSlot(slot, data) ==
  IF IsFunction(watcherCb[0]) THEN << Invocation(watcherCb[0], data, slot) >> ELSE << >>
(* onStatus(slot, data) *)
onStatus(slot, data) ==
  IF slot < numStatus /\ IsFunction(watcherCb[slot])
    THEN << Invocation(watcherCb[slot], data, slot) >>
    ELSE << >>

(* A 'data' event of the characteristic of status slot s. *)
StatusData(s, data) ==
  /\ linkUp
  /\ s \in statusChar
  /\ s \in subscribed
  /\ event' = [kind |-> "status", slot |-> s, data |-> data]
  /\ invoked' = IF s \in listening THEN onStatus(s, data) ELSE << >>
  /\ txWrites' = << >>
  /\ Rest
  /\ UNCHANGED <<connVars, cbDefined, watcherCb, subscribed, superSub, pendUnsub, calls,
                 settled, nOps, nConn>>

(* A 'data' event of the superwatch characteristic: inspectDevice registers
   no handler for it. *)
SuperwatchData(data) ==
  /\ linkUp
  /\ superwatchChar
  /\ superSub
  /\ event' = [kind |-> "superwatch", slot |-> SLOT_SUPERWATCH, data |-> data]
  /\ invoked' = << >>
  /\ txWrites' = << >>
  /\ Rest
  /\ UNCHANGED <<connVars, cbDefined, watcherCb, subscribed, superSub, pendUnsub, calls,
                 settled, nOps, nConn>>

-----------------------------------------------------------------------------
(* write(data): the chunked write to the transparent UART *)

Slice(data, from, to) ==
  [k \in 1 .. ((IF to < Len(data) THEN to ELSE Len(data)) - from) |-> data[from + k]]

RECURSIVE ChunksFromOverlap(_, _)
ChunksFromOverlap(data, index) ==
  IF index < Len(data)
    THEN << Slice(data, index, index + chunkSize) >> \o ChunksFromOverlap(data, index + chunkSize - 1)
    ELSE << >>

RECURSIVE ChunksFrom(_, _)
ChunksFrom(data, index) ==
  IF index < Len(data)
    THEN << Slice(data, index, index + chunkSize) >> \o ChunksFrom(data, index + chunkSize)
    ELSE << >>

DataInputs ==
  { [k \in 1 .. n |-> (seed + k) % 256] : n \in 0 .. MaxDataLen, seed \in {0, 250} }

(* The chunk writes of a send join, in order, those the BLE stack still has
   to complete. *)
IssueFirst(pending, send, n) == [k \in 1 .. n |-> send] \o pending
Issue(pending, send, n) == pending \o [k \in 1 .. n |-> send]

(* write(data): every chunk is handed to writeCharacteristic within the call,
   which returns nothing; the promises of the chunk writes are only collected
   in a Promise.all whose outcome is dropped. *)
write(data) ==
  /\ (txCharacteristic /\ isConnected) => nSends < MaxSends
  /\ txWrites' = IF txCharacteristic /\ isConnected THEN ChunksFrom(data, 0) ELSE << >>
  /\ txPending' = Issue(txPending, nSends + 1, Len(txWrites'))
  /\ nSends' = IF Len(txWrites') > 0 THEN nSends + 1 ELSE nSends
  /\ event' = [kind |-> "write", slot |-> 0, data |-> data]
  /\ invoked' = << >>
  /\ sessionEvent' = "none"
  /\ Aside
  /\ Heard
  /\ UNCHANGED queueVars
  /\ UNCHANGED <<connVars, cbDefined, watcherCb, subscribed, superSub, pendUnsub, calls,
                 settled, nOps, nConn>>

(* The callback of characteristic.write for the oldest pending chunk write:
   its promise is resolved or rejected, and write()'s Promise.all handlers do
   nothing with either. *)
WriteDone(ok) ==
  /\ Len(txPending) > 0
  /\ linkUp
  /\ txPending' = Tail(txPending)
  /\ nSends' = IF Len(txPending) = 1 THEN 0 ELSE nSends
  /\ event' = [kind |-> IF ok THEN "written" ELSE "writeFailed",
               slot |-> Head(txPending), data |-> "d1"]
  /\ invoked' = << >>
  /\ txWrites' = << >>
  /\ sessionEvent' = "none"
  /\ Aside
  /\ Heard
  /\ UNCHANGED queueVars
  /\ UNCHANGED <<connVars, cbDefined, watcherCb, subscribed, superSub, pendUnsub, calls,
                 settled, nOps, nConn>>

-----------------------------------------------------------------------------
(* The command queue: __command(), sendNextCommand(), handleResponseTimeout() *)

QueueEntry(sequence) == [sequence |-> sequence, responseTimer |-> "null"]

(* sendNextCommand(): 'sendCommand' is emitted for the head of the queue and
   writeCharacteristic(me.commandChar, ...) is called with a callback as a
   third argument.  writeCharacteristic takes two arguments and returns a
   promise, so the callback, the only place that arms the response timer or
   fails the command, never runs; commandChar is never set, so the promise is
   rejected and nothing is written. *)
sendNextCommand(queue) ==
  IF Len(queue) > 0
    THEN [kind |-> "sendCommand", slot |-> queue[1].sequence, data |-> "d1"]
    ELSE NoEvent

(* me.commandSequence = (me.commandSequence + 1) & 0xFF *)
NextSequenceNoWrap(n) == n + 1
NextSequence(n) == (n + 1) % 256

(* if (me.commandQueue.length === 1): the request just queued is started. *)
StartsAlways(queue) == TRUE
StartsNow(queue) == Len(queue) = 1

(* __command(command, callback, options): the request is queued with the
   current sequence number and started when it is alone in the queue. *)
EnqueueCommand ==
  /\ Len(commandQueue) < MaxQueue
  /\ commandQueue' = Append(commandQueue, QueueEntry(commandSequence))
  /\ commandSequence' = NextSequence(commandSequence)
  /\ event' = IF StartsNow(commandQueue') THEN sendNextCommand(commandQueue') ELSE NoEvent
  /\ waited' = IF Len(commandQueue') = 1 THEN 0 ELSE waited
  /\ invoked' = << >>
  /\ txWrites' = << >>
  /\ settled' = NoCall
  /\ sessionEvent' = "none"
  /\ Aside
  /\ Heard
  /\ UNCHANGED <<connVars, cbDefined, watcherCb, subscribed, superSub, pendUnsub, calls,
                 nOps, nConn, txVars>>

(* The timeout of the request at the head of the queue goes by with no
   response: no timer was armed for it, handleResponseTimeout() is not called
   and the request stays where it is. *)
NoResponse ==
  /\ Len(commandQueue) > 0
  /\ waited < MaxWait
  /\ waited' = waited + 1
  /\ Idle
  /\ sessionEvent' = "none"
  /\ Aside
  /\ Heard
  /\ UNCHANGED <<connVars, cbDefined, watcherCb, subscribed, superSub, pendUnsub, calls,
                 nConn, txVars, commandQueue, commandSequence>>

(* The device answers the request at the head of the queue: the handler that
   would pass the response to onResponse() is not registered, and
   onResponse() has an empty body. *)
onResponse(queue, response) == queue

ResponseData ==
  /\ Len(commandQueue) > 0
  /\ linkUp
  /\ event' = [kind |-> "response", slot |-> commandQueue[1].sequence, data |-> "d1"]
  /\ commandQueue' = onResponse(commandQueue, event')
  /\ invoked' = << >>
  /\ txWrites' = << >>
  /\ settled' = NoCall
  /\ sessionEvent' = "none"
  /\ Aside
  /\ Heard
  /\ UNCHANGED <<connVars, cbDefined, watcherCb, subscribed, superSub, pendUnsub, calls,
                 nOps, nConn, txVars, commandSequence, waited>>

QueueStep == EnqueueCommand \/ NoResponse \/ ResponseData

-----------------------------------------------------------------------------
(* readDongleInfo() *)

InfoChars ==
  << "systemId", "modelNumber", "serialNumber", "firmwareRevision",
     "hardwareRevision", "softwareRevision", "manufacturerName" >>

(* The text of the identity characteristics is ASCII: one byte per character. *)
Alphabet == {"1", "2", "A", "C", "S"}

CodeOf(ch) ==
  CASE ch = "1" -> 49 [] ch = "2" -> 50 [] ch = "A" -> 65 [] ch = "C" -> 67
    [] ch = "S" -> 83

Encode(text) == [k \in 1 .. Len(text) |-> CodeOf(text[k])]

(* What a read of the k-th identity characteristic delivers. *)
IdentityValue(dev, k) ==
  IF k = 1 THEN dev.systemId ELSE Encode(dev[InfoChars[k]])

(* Buffer.prototype.toString(): a byte that is no character of the text
   decodes to the replacement character. *)
toString(buf) ==
  [k \in 1 .. Len(buf) |->
     IF \E ch \in Alphabet : CodeOf(ch) = buf[k]
       THEN CHOOSE ch \in Alphabet : CodeOf(ch) = buf[k]
       ELSE "?"]

(* The object readDongleInfo() builds from the results of Promise.all. *)
InfoFieldsSwapped(results) ==
  [ systemId |-> results[1],
    modelNumber |-> toString(results[3]),
    serialNumber |-> toString(results[2]),
    firmwareRevision |-> toString(results[4]),
    hardwareRevision |-> toString(results[5]),
    softwareRevision |-> toString(results[6]),
    manufacturerName |-> toString(results[7]) ]
InfoFields(results) ==
  [ systemId |-> results[1],
    modelNumber |-> toString(results[2]),
    serialNumber |-> toString(results[3]),
    firmwareRevision |-> toString(results[4]),
    hardwareRevision |-> toString(results[5]),
    softwareRevision |-> toString(results[6]),
    manufacturerName |-> toString(results[7]) ]

(* A turn of readDongleInfo() leaves everything else alone. *)
InfoOnly ==
  /\ Quiet
  /\ settled' = NoCall
  /\ sessionEvent' = "none"
  /\ Heard
  /\ MemAside
  /\ BatchAside
  /\ UNCHANGED <<connVars, cbDefined, watcherCb, subscribed, superSub, pendUnsub,
                 calls, nConn, txVars, queueVars, identity, idChars>>

(* readDongleInfo(): seven readCharacteristic(); each rejects at once when
   the peripheral is not connected or the characteristic was never found. *)
ReadInfoCall ==
  /\ nOps < MaxOps
  /\ nOps' = nOps + 1
  /\ IF peripheral = "present" /\ bleState = "connected" /\ idChars
       THEN /\ infoReads' = Append(infoReads, << >>)
            /\ infoSettled' = [pc |-> "pending", value |-> << >>]
       ELSE /\ infoSettled' = [pc |-> "rejected", value |-> << >>]
            /\ UNCHANGED infoReads
  /\ InfoOnly

(* The callback of characteristic.read of the oldest pending call: the err
   argument is ignored and the data resolves the read; the seventh result
   resolves Promise.all and the object is built. *)
ReadInfoDone ==
  /\ infoReads # << >>
  /\ bleState = "connected"
  /\ LET results == Append(Head(infoReads), IdentityValue(identity, Len(Head(infoReads)) + 1))
     IN IF Len(results) = Len(InfoChars)
          THEN /\ infoReads' = Tail(infoReads)
               /\ infoSettled' = [pc |-> "resolved", value |-> InfoFields(results)]
          ELSE /\ infoReads' = << results >> \o Tail(infoReads)
               /\ infoSettled' = [pc |-> "pending", value |-> << >>]
  /\ UNCHANGED nOps
  /\ InfoOnly

InfoStep == ReadInfoCall \/ ReadInfoDone

-----------------------------------------------------------------------------
(* readMemory, writeMemory, readObject, writeObject *)

MemRequest(fn, dest, address, length, data) ==
  [fn |-> fn, unit |-> dest, address |-> address, length |-> length, data |-> data]

IsWrite(r) == r.fn \in {"writeMemory", "writeObject"}

Span(r) == IF r.fn = "writeMemory" THEN Len(r.data) ELSE r.length

(* Request r is about byte a of unit u. *)
Covers(r, u, a) ==
  /\ r.fn \in {"readMemory", "writeMemory"}
  /\ r.unit = u
  /\ a \in r.address .. r.address + Span(r) - 1

MemoryInputs ==
  { x \in [address : Addresses, data : {<< 0 >>, << 85 >>, << 85, 0 >>}] :
      x.address + Len(x.data) - 1 <= MaxAddress }

PageInputs == {Filled(0), Filled(85), OriginalPage}

(* A faithful device: it stores what is written and returns what it stores. *)
Stored(st, r) ==
  IF r.fn = "writeMemory"
    THEN [st EXCEPT !.mem = [c \in Cells |->
                               IF Covers(r, c[1], c[2])
                                 THEN r.data[c[2] - r.address + 1]
                                 ELSE st.mem[c]]]
  ELSE IF r.fn = "writeObject" THEN [st EXCEPT !.page = r.data]
  ELSE st

Echoed(st, r) ==
  IF r.fn = "readMemory"
    THEN [k \in 1 .. r.length |-> st.mem[<<r.unit, r.address + k - 1>>]]
  ELSE IF r.fn = "readObject" THEN st.page
  ELSE << >>

(* What the messaging client hands to onComplete for request r. *)
MemReply(kind, st, r) ==
  [ err |-> kind = "error",
    exceptionCode |-> IF kind = "exception" THEN 2 ELSE 0,
    status |-> IF kind = "status" THEN 1 ELSE 0,
    values |-> IF kind = "ok" THEN Echoed(st, r) ELSE << >> ]

MemKinds == {"ok", "status", "exception", "error"}

(* options.onComplete of readMemory and readObject / of writeMemory and
   writeObject. *)
onCompleteRead(err, response) ==
  IF err \/ response.exceptionCode # 0
    THEN [pc |-> "rejected", value |-> << >>]
    ELSE [pc |-> "resolved", value |-> response.values]

onCompleteWriteAnyStatus(err, response) ==
  IF err \/ response.exceptionCode # 0
    THEN [pc |-> "rejected", value |-> << >>]
    ELSE [pc |-> "resolved", value |-> << >>]
onCompleteWrite(err, response) ==
  IF err \/ response.exceptionCode # 0
    THEN [pc |-> "rejected", value |-> << >>]
    ELSE IF response.status = 0
           THEN [pc |-> "resolved", value |-> << >>]
           ELSE [pc |-> "rejected", value |-> << >>]

(* A turn of a memory or object call leaves everything else alone. *)
MemOnly ==
  /\ Quiet
  /\ settled' = NoCall
  /\ sessionEvent' = "none"
  /\ Heard
  /\ InfoAside
  /\ BatchAside
  /\ UNCHANGED <<connVars, cbDefined, watcherCb, subscribed, superSub, pendUnsub,
                 calls, nConn, txVars, queueVars>>

(* The call hands its request to the messaging client.  What a write is about
   to overwrite is in doubt until the write has resolved. *)
MemCall(r) ==
  /\ nOps < MaxOps
  /\ connPc = "idle"
  /\ nOps' = nOps + 1
  /\ memCalls' = Append(memCalls, r)
  /\ expect' = IF r.fn = "writeMemory"
                 THEN [expect EXCEPT !.mem = [c \in Cells |->
                         IF Covers(r, c[1], c[2]) THEN InDoubt ELSE expect.mem[c]]]
               ELSE IF r.fn = "writeObject" THEN [expect EXCEPT !.page = << >>]
               ELSE expect
  /\ memSettled' = NoMem
  /\ UNCHANGED store
  /\ MemOnly

readMemory(dest, address, length) ==
  MemCall(MemRequest("readMemory", dest, address, length, << >>))

writeMemory(dest, address, data) ==
  MemCall(MemRequest("writeMemory", dest, address, 0, data))

readObject(dest, objectId) ==
  MemCall(MemRequest("readObject", dest, objectId, 0, << >>))

writeObject(dest, objectId, data) ==
  MemCall(MemRequest("writeObject", dest, objectId, 0, data))

(* The oldest request completes.  The device answers only a request that
   could be written and whose reply can be received; a request with no answer
   times out, whether or not a write reached the device. *)
MemDone(kind, reached) ==
  /\ memCalls # << >>
  /\ kind # "error" => CanTransact
  /\ kind = "status" => IsWrite(Head(memCalls))
  /\ reached = (kind = "ok" \/ (kind = "error" /\ CanTransact /\ reached))
  /\ LET r == Head(memCalls)
         reply == MemReply(kind, store, r)
         done == IF IsWrite(r) THEN onCompleteWrite(reply.err, reply)
                               ELSE onCompleteRead(reply.err, reply)
         later(u, a) == \E k \in 2 .. Len(memCalls) :
                           memCalls[k].fn = "writeMemory" /\ Covers(memCalls[k], u, a)
         laterPage == \E k \in 2 .. Len(memCalls) : memCalls[k].fn = "writeObject"
     IN /\ store' = IF reached THEN Stored(store, r) ELSE store
        /\ memCalls' = Tail(memCalls)
        /\ memSettled' = [ fn |-> r.fn, unit |-> r.unit, address |-> r.address,
                            length |-> r.length, data |-> r.data,
                            pc |-> done.pc, value |-> done.value ]
        /\ expect' =
             IF done.pc # "resolved" THEN expect
             ELSE IF r.fn = "writeMemory"
               THEN [expect EXCEPT !.mem = [c \in Cells |->
                       IF Covers(r, c[1], c[2]) /\ ~ later(c[1], c[2])
                         THEN r.data[c[2] - r.address + 1]
                         ELSE expect.mem[c]]]
             ELSE IF r.fn = "writeObject" /\ ~ laterPage
               THEN [expect EXCEPT !.page = r.data]
             ELSE expect
  /\ UNCHANGED nOps
  /\ MemOnly

MemStep ==
  \/ \E u \in Units, x \in MemoryInputs : writeMemory(u, x.address, x.data)
  \/ \E u \in Units, x \in MemoryInputs : readMemory(u, x.address, Len(x.data))
  \/ \E page \in PageInputs : writeObject(DongleId, 0, page)
  \/ readObject(DongleId, 0)
  \/ \E kind \in MemKinds, reached \in BOOLEAN : MemDone(kind, reached)

-----------------------------------------------------------------------------
(* setWatchers(watchers) *)

(* new Watcher(slot, id, address, length, cb) *)
WatcherNoDefault(slot, id, address, length, cb) ==
  [ slot |-> slot, id |-> id, address |-> address, length |-> length.value, cb |-> cb ]
Watcher(slot, id, address, length, cb) ==
  [ slot |-> slot, id |-> id, address |-> address,
    length |-> DefaultLength(length), cb |-> cb ]

WatcherLists ==
  { << Watcher(SLOT_SUPERWATCH, 1, 95, Omitted, "cb1") >>,
    << Watcher(SLOT_SUPERWATCH, 1, 95, Omitted, "cb1"), Watcher(0, 2, 868, Given(2), "cb2") >>,
    << Watcher(0, 2, 868, Given(2), "cb2"), Watcher(BadSlot, 1, 95, Omitted, "cb1") >> }

(* list.push(slot, id, address >> 8, address & 0xFF, length) for each watcher,
   then Buffer.from(list). *)
RECURSIVE WatcherBytes(_)
WatcherBytesFirst(watchers) ==
  IF watchers = << >> THEN << >>
  ELSE LET w == Head(watchers) IN
         << Byte(w.slot), Byte(w.id), Byte(w.address \div 256), Byte(w.address % 256),
            Byte(w.length) >>
WatcherBytes(watchers) ==
  IF watchers = << >> THEN << >>
  ELSE LET w == Head(watchers) IN
         << Byte(w.slot), Byte(w.id), Byte(w.address \div 256), Byte(w.address % 256),
            Byte(w.length) >> \o WatcherBytes(Tail(watchers))

(* me.watcherCb[watcher.slot] = watcher.cb for each watcher, in order. *)
RECURSIVE InstallEach(_, _)
InstallEach(table, watchers) ==
  IF watchers = << >> THEN table
  ELSE InstallEach(Install(table, Head(watchers).slot, Head(watchers).cb), Tail(watchers))

(* A turn of setWatchers() leaves everything else alone. *)
BatchOnly ==
  /\ Quiet
  /\ settled' = NoCall
  /\ sessionEvent' = "none"
  /\ Heard
  /\ InfoAside
  /\ MemAside
  /\ UNCHANGED <<connVars, cbDefined, superSub, pendUnsub, calls, nConn, txVars, queueVars>>

Ended(b, outcome, err) ==
  [b EXCEPT !.outcome = outcome, !.err = err, !.now = TRUE,
            !.pc = IF b.unsubLeft = {} /\ b.subLeft = {} THEN "done" ELSE "drain"]

(* await me.command(me.id, OP_WATCH, Buffer.from(list)) *)
BatchCommand(b) ==
  [b EXCEPT !.sent = Append(@, Command(DongleId, OP_WATCH, WatcherBytes(b.list))),
            !.pc = IF CanTransact THEN "cmd" ELSE "cmdLost"]

(* await Promise.all(unsub): the first rejection has already ended the call;
   with every unsubscribe done the command is issued, unless one of them will
   never be called back. *)
AfterUnsub(b) ==
  IF b.unsubLeft # {} THEN b
  ELSE IF b.stuck THEN Ended(b, "hung", "none")
  ELSE BatchCommand(b)

(* setWatchers(watchers): no check of the slots.  Each watcher's unsubscribe
   is issued and its callback installed; the unsubscribe of a slot with no
   characteristic, or on a dead link, is never called back. *)
SetWatchersCall(watchers) ==
  /\ nOps < MaxOps
  /\ connPc = "idle"
  /\ Rested(batch) = NoBatch
  /\ nOps' = nOps + 1
  /\ IF cbDefined
       THEN LET issued == { k \in 1 .. Len(watchers) :
                             watchers[k].slot \in statusChar /\ linkUp }
                b == [NoBatch EXCEPT !.pc = "unsub", !.list = watchers,
                                     !.unsubLeft = issued,
                                     !.stuck = issued # 1 .. Len(watchers)]
            IN /\ watcherCb' = InstallEach(watcherCb, watchers)
               /\ batch' = AfterUnsub(b)
       ELSE /\ batch' = Ended([NoBatch EXCEPT !.list = watchers], "rejected", "TypeError")
            /\ UNCHANGED watcherCb
  /\ UNCHANGED subscribed
  /\ BatchOnly

(* The callback of characteristic.unsubscribe for watcher k. *)
BatchUnsubDone(k, ok) ==
  /\ k \in batch.unsubLeft
  /\ linkUp
  /\ subscribed' = IF ok THEN subscribed \ {batch.list[k].slot} ELSE subscribed
  /\ LET b == [batch EXCEPT !.unsubLeft = @ \ {k},
                            !.unsubOk = IF ok THEN @ \cup {k} ELSE @,
                            !.unsubFailed = IF ok THEN @ ELSE @ \cup {k},
                            !.now = FALSE]
     IN batch' = IF batch.outcome # "none"
                   THEN IF b.unsubLeft = {} /\ b.subLeft = {}
                          THEN [b EXCEPT !.pc = "done"] ELSE b
                 ELSE IF ~ ok THEN Ended(b, "rejected", "UnsubscribeFailed")
                 ELSE AfterUnsub(b)
  /\ UNCHANGED <<nOps, watcherCb>>
  /\ BatchOnly

(* onComplete of the WATCH command: on success every watcher's subscribe is
   issued. *)
BatchCmdDone(reply) ==
  /\ batch.pc \in {"cmd", "cmdLost"}
  /\ batch.pc = "cmdLost" => reply.err
  /\ LET b == [batch EXCEPT !.reply = reply, !.now = FALSE]
         all == 1 .. Len(batch.list)
         issued == { k \in all : batch.list[k].slot \in statusChar }
     IN batch' =
          IF onComplete(reply.err, reply) # "resolve"
            THEN Ended(b, "rejected", "CommandFailed")
          ELSE IF issued # all
            THEN Ended([b EXCEPT !.subLeft = issued, !.subIssued = issued],
                       "rejected", "TypeError")
          ELSE [b EXCEPT !.subLeft = issued, !.subIssued = issued, !.pc = "sub"]
  /\ UNCHANGED <<nOps, watcherCb, subscribed>>
  /\ BatchOnly

(* The callback of characteristic.subscribe for watcher k. *)
BatchSubDone(k, ok) ==
  /\ k \in batch.subLeft
  /\ linkUp
  /\ subscribed' = IF ok THEN subscribed \cup {batch.list[k].slot} ELSE subscribed
  /\ LET b == [batch EXCEPT !.subLeft = @ \ {k}, !.now = FALSE]
     IN batch' = IF batch.outcome # "none"
                   THEN IF b.subLeft = {} THEN [b EXCEPT !.pc = "done"] ELSE b
                 ELSE IF ~ ok THEN Ended(b, "rejected", "SubscribeFailed")
                 ELSE IF b.subLeft = {} THEN Ended(b, "resolved", "none")
                 ELSE b
  /\ UNCHANGED <<nOps, watcherCb>>
  /\ BatchOnly

BatchStep ==
  \/ \E watchers \in WatcherLists : SetWatchersCall(watchers)
  \/ \E k \in 1 .. MaxWatchers, ok \in BOOLEAN : BatchUnsubDone(k, ok)
  \/ \E r \in Replies : BatchCmdDone(r)
  \/ \E k \in 1 .. MaxWatchers, ok \in BOOLEAN : BatchSubDone(k, ok)

-----------------------------------------------------------------------------
CallStep ==
  \/ \E s \in SlotInputs, a \in WatchInputs : WatchCall(s, a, a.cb)
  \/ \E s \in SlotInputs : UnwatchCall(s)
  \/ \E a \in SuperwatchInputs : SuperwatchCall(a.id, a.addresses, a.cb)
  \/ UnwatchAllCall
  \/ ConfigureCall
  \/ \E state \in BOOLEAN : KeyswitchCall(state)

CompletionStep ==
  \/ \E i \in 1 .. MaxCalls, ok \in BOOLEAN : UnsubDone(i, ok)
  \/ \E i \in 1 .. MaxCalls, r \in Replies : CmdDone(i, r)
  \/ \E i \in 1 .. MaxCalls, r \in Replies : SuperCmdDone(i, r)
  \/ \E i \in 1 .. MaxCalls, ok \in BOOLEAN : SubDone(i, ok)
  \/ \E s \in LiveSlots, ok \in BOOLEAN : DetachedUnsubDone(s, ok)

DataStep ==
  \/ \E s \in LiveSlots, d \in Payloads : StatusData(s, d)
  \/ \E d \in Payloads : SuperwatchData(d)

Next == SessionStep \/ CallStep \/ CompletionStep \/ DataStep

Spec == Init /\ [][Next]_vars

WriteStep ==
  \/ \E d \in DataInputs : write(d)
  \/ \E ok \in BOOLEAN : WriteDone(ok)

NextWrite == SessionStep \/ WriteStep

SpecWrite == Init /\ [][NextWrite]_vars

InitInfo == Start /\ identity \in Devices

NextInfo == SessionStep \/ InfoStep

SpecInfo == InitInfo /\ [][NextInfo]_vars

NextMemory == SessionStep \/ MemStep

SpecMemory == Init /\ [][NextMemory]_vars

NextBatch == SessionStep \/ BatchStep

SpecBatch == Init /\ [][NextBatch]_vars

NextQueue == SessionStep \/ QueueStep

SpecQueue == Init /\ [][NextQueue]_vars

-----------------------------------------------------------------------------
(* Properties *)

(* The call that began in this step: it is the last of the calls in flight,
   or it ended at once and is the settled one. *)
Began == IF Len(calls') > Len(calls) THEN calls'[Len(calls')] ELSE settled'

CallBegins == nOps' = nOps + 1

RECURSIVE Concat(_)
Concat(chunks) == IF chunks = << >> THEN << >> ELSE Head(chunks) \o Concat(Tail(chunks))

CeilDiv(n, d) == (n + d - 1) \div d

(* C1: when unwatch(s) resolves, having begun right after a watch(s, ...)
   that resolved and with no other operation on s during either, slot s has no
   callback and is not subscribed to hardware notifications. *)
C1_WatchThenUnwatch ==
  ( /\ settled.op = "unwatch"
    /\ settled.pc = "resolved"
    /\ settled.clean
    /\ settled.after \in Callbacks )
  => ( /\ ~ IsFunction(watcherCb[settled.slot])
       /\ settled.slot \notin subscribed )

C1_Witness ==
  /\ settled.op = "unwatch"
  /\ settled.pc = "resolved"
  /\ settled.clean
  /\ settled.after \in Callbacks
  /\ settled.slot < numStatus

(* C2: after watch(s, ..., cb2) resolved, having begun after watch(s, ..., cb1)
   resolved, a notification on slot s invokes cb2, once, and not cb1. *)
C2_LastWriterWins ==
  ( /\ event.kind = "status"
    /\ settled.op = "watch"
    /\ settled.pc = "resolved"
    /\ settled.clean
    /\ settled.after \in Callbacks
    /\ settled.slot = event.slot )
  => invoked = << [cb |-> settled.cb, data |-> event.data, slot |-> event.slot] >>

C2_Witness ==
  /\ event.kind = "status"
  /\ settled.op = "watch"
  /\ settled.pc = "resolved"
  /\ settled.clean
  /\ settled.after = "cb1"
  /\ settled.cb = "cb2"
  /\ settled.slot = event.slot
  /\ Len(invoked) = 1
  /\ invoked[1].cb = "cb2"

(* C3: watch(s, ...) with s >= numStatus is rejected for its invalid slot and
   issues no unsubscribe, no subscribe and no command, and leaves the callback
   table and the subscriptions as they were. *)
C3_InvalidSlotNoIO ==
  [][ ( CallBegins /\ Began.op = "watch" /\ Began.slot >= 20 )
      => ( /\ Began.pc = "rejected"
           /\ Began.err = "InvalidSlot"
           /\ Began.sent = << >>
           /\ Began.nunsub = 0
           /\ Began.nsub = 0
           /\ UNCHANGED <<watcherCb, subscribed, superSub, pendUnsub, calls>> ) ]_vars

C3_Witness ==
  /\ settled.op = "watch"
  /\ settled.slot >= 20
  /\ settled.pc = "rejected"
  /\ isConnected
  /\ \E s \in StatusSlots : IsFunction(watcherCb[s])

(* C4: superwatch with more addresses than the hardware maximum is rejected
   with TooManyAddresses, and sends no command and issues no unsubscribe or
   subscribe. *)
C4_TooManyAddresses ==
  [][ ( /\ isConnected
        /\ CallBegins
        /\ Began.op = "superwatch"
        /\ Len(Began.addrs) > 25 )
      => ( /\ Began.pc = "rejected"
           /\ Began.err = "TooManyAddresses"
           /\ Began.sent = << >>
           /\ Began.nunsub = 0
           /\ Began.nsub = 0 ) ]_vars

(* C5: in a Ready session write(data) issues ceil(len/20) characteristic
   writes, in increasing offset order, each of 20 bytes but the last, which
   holds the remainder, and the chunks concatenated are data. *)
C5_WriteChunks ==
  ( event.kind = "write" /\ isConnected /\ txCharacteristic )
  => LET d == event.data
         w == txWrites
     IN /\ Len(w) = CeilDiv(Len(d), 20)
        /\ \A k \in 1 .. Len(w) :
              Len(w[k]) = IF k < Len(w) THEN 20 ELSE Len(d) - 20 * (k - 1)
        /\ \A k \in 1 .. Len(w) : \A j \in 1 .. Len(w[k]) : w[k][j] = d[20 * (k - 1) + j]
        /\ Concat(w) = d

C5_Witness ==
  /\ event.kind = "write"
  /\ isConnected
  /\ txCharacteristic
  /\ Len(event.data) = 45
  /\ Len(txWrites) = 3
  /\ Len(txWrites[1]) = 20
  /\ Len(txWrites[2]) = 20
  /\ Len(txWrites[3]) = 5

(* C6: a watch(slot, id, address, length, cb) that resolves has issued exactly
   one command, WATCH (op-code 2) to unit 254 with payload
   [slot, id, address high, address low, length], length being 1 when it was
   omitted, and at that point the slot is subscribed. *)
C6_WatchCommand ==
  ( settled.op = "watch" /\ settled.pc = "resolved" )
  => ( /\ settled.sent =
            << [ unit |-> 254, op |-> 2,
                 payload |-> << settled.slot, settled.id,
                                settled.address \div 256, settled.address % 256,
                                IF settled.length.given THEN settled.length.value ELSE 1 >> ] >>
       /\ settled.slot \in subscribed )

C6_Witness ==
  /\ settled.op = "watch"
  /\ settled.pc = "resolved"
  /\ ~ settled.length.given
  /\ settled.address = 95
  /\ settled.slot = 0

(* C7: a notification on the characteristic of a slot that has a callback
   installed invokes that callback exactly once, with the payload, and invokes
   no other callback. *)
C7_NotificationRouting ==
  ( /\ event.kind = "status"
    /\ IsFunction(watcherCb[event.slot]) )
  => invoked = << [cb |-> watcherCb[event.slot], data |-> event.data, slot |-> event.slot] >>

C7_Witness ==
  /\ event.kind = "status"
  /\ event.slot = SLOT_SUPERWATCH
  /\ event.data = "d2"
  /\ watcherCb[0] = "cb1"
  /\ watcherCb[SLOT_SUPERWATCH] = "cb2"
  /\ invoked = << [cb |-> "cb2", data |-> "d2", slot |-> SLOT_SUPERWATCH] >>

(* C8: a call made while the session is not Ready is rejected with
   NotConnected. *)
C8_NotConnected ==
  [][ ( ~ isConnected /\ CallBegins )
      => ( Began.pc = "rejected" /\ Began.err = "NotConnected" ) ]_vars

(* C9: in every state with no call in flight, a slot with no callback
   installed is not subscribed to hardware notifications. *)
C9_CallbackSubscription ==
  ( calls = << >> /\ pendUnsub = {} )
  => \A s \in StatusSlots : ~ IsFunction(watcherCb[s]) => s \notin subscribed

(* C10: the step that disconnects a Ready session, the completion of
   disconnect() or a link loss, leaves no slot with a callback. *)
C10_NoWatchSurvives ==
  [][ ( isConnected /\ bleState' = "disconnected" )
      => \A s \in TableIndex : ~ IsFunction(watcherCb'[s]) ]_vars

(* The order of the steps of one connect() call. *)
ConnectOrder ==
  { <<"idle", "bleConnect">>, <<"bleConnect", "discover">>, <<"discover", "read">>,
    <<"read", "subscribe">>, <<"subscribe", "idle">>,
    <<"bleConnect", "idle">>, <<"discover", "idle">>, <<"read", "idle">> }

(* C11: a connect() call goes through the BLE connect, the discovery, the
   reads and the subscriptions in that order, skipping none, and the step
   that marks the session Ready ('open' emitted, connected set, connect()
   resolved) is the last step of the inspection, on a connected link, with
   the subscriptions made, the status handlers registered and a device type. *)
C11_ReadyOnlyAfterInspection ==
  [][ /\ connPc' # connPc => <<connPc, connPc'>> \in ConnectOrder
      /\ sessionEvent' = "open"
           => ( /\ connPc = "subscribe"
                /\ bleState = "connected"
                /\ bleState' = "connected"
                /\ connected'
                /\ rxReady'
                /\ listening' = statusChar'
                /\ deviceType' = "CS1816" ) ]_vars

C11_Witness ==
  /\ sessionEvent = "open"
  /\ isConnected
  /\ nConn = 2

(* C12: when discovery leaves a mandatory item missing, connect() rejects
   with the incompatible-device error, 'open' is not emitted and the session
   is not connected afterwards. *)
C12_IncompatibleDevice ==
  [][ ( /\ connPc = "discover"
        /\ connPc' = "idle"
        /\ bleState' = "connected"
        /\ statusChar' # {} )
      => ( /\ sessionEvent' = "IncompatibleDevice"
           /\ ~ connected'
           /\ ~ isConnected' ) ]_vars

(* C13: in a connected session every call of the watch family ends with its
   promise resolved or rejected: none is left with a promise that nothing can
   settle any more. *)
C13_EverySettled ==
  ( isConnected /\ settled.op # "none" ) => settled.pc \in {"resolved", "rejected"}

(* C14: in a connected session a request at the head of the command queue
   that gets no response does not outlive its timeout: once two timeout
   periods have gone by it has been failed with Timeout and removed from the
   queue. *)
C14_TimeoutFailsRequest ==
  ( isConnected /\ Len(commandQueue) > 0 ) => waited < 2

(* C15: the completion of the disconnect() of a connected session leaves the
   command queue empty, every queued request having been failed. *)
C15_DisconnectFailsQueue ==
  [][ ( isConnected /\ discPending /\ ~ discPending' ) => commandQueue' = << >> ]_vars

(* C16: the chunk writes pending in the BLE stack are in the order of their
   sends: every chunk of an earlier write() call is ahead of every chunk of a
   later one. *)
C16_NoInterleaving ==
  \A i \in 1 .. Len(txPending) : \A j \in 1 .. Len(txPending) :
      i < j => txPending[i] <= txPending[j]

C16_Witness ==
  /\ event.kind = "write"
  /\ Len(txWrites) = 2
  /\ txPending = << 1, 1, 2, 2 >>

(* C17: in a connected session, when write(data) has returned to its caller
   none of the chunk writes of data is still to complete. *)
C17_SendCompletes ==
  ( event.kind = "write" /\ isConnected /\ txCharacteristic /\ Len(event.data) > 0 )
  => \A k \in 1 .. Len(txPending) : txPending[k] # nSends

(* C18: unwatch(s) with s >= numStatus is rejected for its invalid slot,
   issues no unsubscribe and no command, and leaves the callback table and
   the subscriptions as they were. *)
C18_UnwatchInvalidSlot ==
  [][ ( CallBegins /\ Began.op = "unwatch" /\ Began.slot >= 20 )
      => ( /\ Began.pc = "rejected"
           /\ Began.err = "InvalidSlot"
           /\ Began.sent = << >>
           /\ Began.nunsub = 0
           /\ Began.nsub = 0
           /\ UNCHANGED <<watcherCb, subscribed, superSub, pendUnsub, calls>> ) ]_vars

C18_Witness ==
  /\ settled.op = "unwatch"
  /\ settled.slot >= 20
  /\ settled.pc = "rejected"
  /\ isConnected
  /\ \E s \in StatusSlots : IsFunction(watcherCb[s]) /\ s \in subscribed

(* C19: in a connected session, when an unwatch(s) for a valid slot that
   began after a watch(s, ...) had resolved has settled, resolved or rejected,
   and slot s has no callback, exactly one UNWATCH command (op-code 3) with
   payload [s] has been sent to unit 254. *)
C19_UnwatchSendsCommand ==
  ( /\ isConnected
    /\ settled.op = "unwatch"
    /\ settled.slot < 20
    /\ settled.after \in Callbacks
    /\ settled.pc \in {"resolved", "rejected"}
    /\ ~ IsFunction(watcherCb[settled.slot]) )
  => settled.sent = << [unit |-> 254, op |-> 3, payload |-> << settled.slot >>] >>

(* C20: an unwatchAll() that has settled has sent exactly one UNWATCH_ALL
   command (op-code 4) to unit 254 and, the characteristics being those of its
   call, has issued one unsubscribe for each status characteristic; it is
   resolved or rejected by that command alone, whatever its unsubscribes
   answered. *)
C20_UnwatchAll ==
  ( settled.op = "unwatchAll" /\ settled.pc \in {"resolved", "rejected"} )
  => ( /\ settled.sent = << [unit |-> 254, op |-> 4, payload |-> << >>] >>
       /\ settled.pc = "rejected" => settled.err = "CommandFailed"
       /\ settled.clean => settled.nunsub = Cardinality(statusChar) )

C20_Witness ==
  /\ settled.op = "unwatchAll"
  /\ settled.pc = "resolved"
  /\ settled.clean
  /\ settled.nunsub = 20
  /\ \E s \in subscribed : s \notin pendUnsub

(* C21: configure and keyswitch, whose promise is that of command(), are
   resolved when the messaging client completes the request with no error, no
   exception code and a first value of 0, and rejected, never resolved, for
   an error, an exception response, another status or no value. *)
C21_CommandOutcome ==
  ( settled.op \in {"configure", "keyswitch"} /\ settled.reply.got )
  => LET r == settled.reply
         good == ~ r.err /\ r.exceptionCode = 0 /\ r.values # << >> /\ r.values[1] = 0
     IN /\ good => settled.pc = "resolved"
        /\ ~ good => settled.pc = "rejected"

C21_Witness ==
  /\ settled.op = "keyswitch"
  /\ settled.reply = [got |-> TRUE, err |-> FALSE, exceptionCode |-> 0, values |-> << 1 >>]
  /\ settled.pc = "rejected"
  /\ settled.sent = << [unit |-> 254, op |-> 1, payload |-> << 1 >>] >>

(* C22: readDongleInfo() is a pure read: a turn of it changes neither the
   connection state, the callback table, the subscriptions, the transport
   nor the command queue, and whenever it resolves, the first call or a later
   one, the seven fields it returns are those the device holds. *)
C22_ReadDongleInfoPure ==
  [][ infoSettled'.pc # "none"
      => /\ UNCHANGED <<connVars, cbDefined, watcherCb, subscribed, superSub,
                        pendUnsub, txVars, queueVars, idChars>>
         /\ infoSettled'.pc = "resolved" => infoSettled'.value = identity' ]_vars

C22_Witness ==
  /\ isConnected
  /\ nOps = 2
  /\ infoReads = << >>
  /\ infoSettled.pc = "resolved"
  /\ infoSettled.value = Device2

(* C23: once superwatch has installed its callback and subscribed the
   superwatch characteristic, every notification of that characteristic
   invokes the callback exactly once with the payload. *)
C23_SuperwatchDelivery ==
  ( /\ event.kind = "superwatch"
    /\ isConnected
    /\ calls = << >>
    /\ IsFunction(watcherCb[SLOT_SUPERWATCH]) )
  => invoked = << [cb |-> watcherCb[SLOT_SUPERWATCH], data |-> event.data,
                   slot |-> SLOT_SUPERWATCH] >>

(* C24: within one connect() call 'connect' is emitted when the BLE link is
   made, as the inspection starts, and 'open' is emitted, with the session
   marked connected, only at the end of the inspection and after that
   'connect': 'open' is never emitted without a 'connect' before it. *)
C24_ConnectBeforeOpen ==
  [][ /\ sessionEvent' = "connect"
           => ( connPc = "bleConnect" /\ connPc' = "discover" /\ emitted' = << "connect" >> )
      /\ sessionEvent' = "open"
           => ( /\ connPc = "subscribe"
                /\ connected'
                /\ emitted = << "connect" >>
                /\ emitted' = << "connect", "open" >> ) ]_vars

C24_Witness ==
  /\ sessionEvent = "open"
  /\ emitted = << "connect", "open" >>
  /\ nConn = 2
  /\ isConnected

(* C25: a read that resolves returns as many bytes as were asked for, and at
   every byte that a resolved writeMemory of the same unit wrote last, with
   no later write to it issued, it returns the byte written; a readObject of
   the flash page that resolves after a resolved writeObject returns the page
   written. *)
C25_RoundTrip ==
  memSettled.pc = "resolved"
  => /\ memSettled.fn = "readMemory"
          => /\ Len(memSettled.value) = memSettled.length
             /\ \A k \in 1 .. memSettled.length :
                  LET e == expect.mem[<<memSettled.unit, memSettled.address + k - 1>>]
                  IN e # InDoubt => memSettled.value[k] = e
     /\ memSettled.fn = "readObject"
          => ( expect.page # << >> => memSettled.value = expect.page )

C25_Witness ==
  /\ memSettled.pc = "resolved"
  /\ memSettled.fn = "readMemory"
  /\ memSettled.unit = 2
  /\ memSettled.address = 0
  /\ memSettled.value = << 85, 0 >>
  /\ expect.mem[<<2, 0>>] = 85
  /\ expect.mem[<<2, 1>>] = 0
  /\ store.mem[<<1, 0>>] = 0

(* C26: watch and unwatch calls on one slot are serialized: while one of them
   is between its unsubscribe and its last step, no later call on the same
   slot has begun its own steps. *)
C26_SameSlotSerialized ==
  isConnected
  => \A i, j \in 1 .. Len(calls) :
       ( /\ i < j
         /\ calls[i].op \in {"watch", "unwatch"}
         /\ calls[j].op \in {"watch", "unwatch"}
         /\ calls[i].slot = calls[j].slot
         /\ calls[i].pc \in {"unsub", "cmd", "sub"} )
       => calls[j].nunsub = 0

(* C27: a notification that arrives on a slot while a watch of that slot has
   not yet had its unsubscribe and its WATCH command completed is not
   delivered to the callback of that watch. *)
C27_NoStaleDelivery ==
  ( event.kind = "status" /\ isConnected )
  => \A i \in 1 .. Len(calls) :
       ( /\ calls[i].op = "watch"
         /\ calls[i].slot = event.slot
         /\ calls[i].pc \in {"unsub", "cmd"}
         /\ calls[i].after \in Callbacks \ {calls[i].cb} )
       => \A k \in 1 .. Len(invoked) : invoked[k].cb # calls[i].cb

(* C28: in a connected session, a superwatch whose SUPERWATCH command failed
   is rejected and has not subscribed the superwatch characteristic. *)
C28_SuperwatchAwaitsCommand ==
  ( /\ isConnected
    /\ settled.op = "superwatch"
    /\ settled.reply.got
    /\ onComplete(settled.reply.err, settled.reply) = "reject" )
  => ( settled.pc = "rejected" /\ settled.nsub = 0 )

(* C29: setWatchers issues at most one WATCH command, whose payload is the
   concatenation in list order of [slot, id, addrHi, addrLo, length] of every
   watcher; the command is issued only when the unsubscribe of every watcher
   has completed, the subscribes are issued, for every watcher, only when
   the command has succeeded, and a call that resolves has sent the command. *)
C29_BatchedWatch ==
  [][ LET all == 1 .. Len(batch'.list)
          good == /\ batch'.reply.got
                  /\ ~ batch'.reply.err
                  /\ batch'.reply.exceptionCode = 0
                  /\ batch'.reply.values = << 0 >>
      IN /\ Len(batch'.sent) <= 1
         /\ Len(batch'.sent) > Len(batch.sent)
              => /\ batch'.sent[1].unit = DongleId
                 /\ batch'.sent[1].op = OP_WATCH
                 /\ batch'.sent[1].payload =
                      Concat([k \in all |->
                                << batch'.list[k].slot, batch'.list[k].id,
                                   batch'.list[k].address \div 256,
                                   batch'.list[k].address % 256,
                                   batch'.list[k].length >>])
                 /\ batch'.unsubOk = all
                 /\ batch'.subIssued = {}
         /\ ( batch'.subIssued # {} /\ batch.subIssued = {} )
              => ( good /\ batch'.subIssued = all /\ Len(batch'.sent) = 1 )
         /\ batch'.outcome = "resolved"
              => ( Len(batch'.sent) = 1 /\ batch'.subIssued = all ) ]_vars

C29_Witness ==
  /\ batch.outcome = "resolved"
  /\ batch.now
  /\ Len(batch.list) = 2
  /\ batch.sent = << [unit |-> 254, op |-> 2,
                      payload |-> << 16, 1, 0, 95, 1, 0, 2, 3, 100, 2 >>] >>
  /\ subscribed = {0, 16}
  /\ watcherCb[0] = "cb2"
  /\ watcherCb[16] = "cb1"

(* C30: a setWatchers in which the unsubscribe of one slot failed has, once
   nothing more of it is pending, still sent its WATCH command. *)
C30_BatchNotAborted ==
  ( /\ isConnected
    /\ batch.pc = "done"
    /\ batch.unsubFailed # {} )
  => Len(batch.sent) = 1

(* C31: a setWatchers whose WATCH command completed with an error, an
   exception response or a status other than 0 is rejected with the error of
   the command, has issued no subscribe, and leaves the slots it named
   unsubscribed. *)
C31_BatchCommandFailure ==
  ( /\ batch.reply.got
    /\ \/ batch.reply.err
       \/ batch.reply.exceptionCode # 0
       \/ batch.reply.values = << >>
       \/ batch.reply.values # << >> /\ batch.reply.values[1] # 0 )
  => /\ batch.outcome = "rejected"
     /\ batch.err = "CommandFailed"
     /\ batch.subIssued = {}
     /\ batch.subLeft = {}
     /\ linkUp => \A k \in 1 .. Len(batch.list) : batch.list[k].slot \notin subscribed

C31_Witness ==
  /\ isConnected
  /\ batch.now
  /\ batch.outcome = "rejected"
  /\ batch.err = "CommandFailed"
  /\ batch.reply.got
  /\ batch.reply.values = << 1 >>
  /\ Len(batch.list) = 2
  /\ Len(batch.sent) = 1

(* C32: a notification for a slot with no callback installed is dropped: no
   callback is invoked, nothing is emitted or settled, and the callback
   table, the subscriptions, the connection state and the calls in flight
   are unchanged. *)
C32_DroppedNotification ==
  [][ ( event'.kind = "status" /\ ~ IsFunction(watcherCb[event'.slot]) )
      => /\ invoked' = << >>
         /\ sessionEvent' = "none"
         /\ settled' = settled
         /\ UNCHANGED <<connVars, cbDefined, watcherCb, subscribed, superSub,
                        pendUnsub, calls>> ]_vars

C32_Witness ==
  /\ isConnected
  /\ event.kind = "status"
  /\ event.slot = SLOT_SUPERWATCH
  /\ event.slot \in subscribed
  /\ watcherCb[event.slot] = "null"
  /\ invoked = << >>
  /\ \E i \in 1 .. Len(calls) : calls[i].op = "unwatch" /\ calls[i].slot = event.slot

(* C33: a request is started, 'sendCommand' emitted for it, only by the
   enqueue that found the queue empty, and it is then the head of the queue;
   a request enqueued behind others is put at the tail, the order of those
   ahead of it unchanged, and is not started. *)
C33_OneInFlight ==
  [][ /\ event'.kind = "sendCommand"
           => /\ commandQueue = << >>
              /\ Len(commandQueue') = 1
              /\ event'.slot = commandQueue'[1].sequence
      /\ Len(commandQueue') > Len(commandQueue)
           => /\ Len(commandQueue') = Len(commandQueue) + 1
              /\ SubSeq(commandQueue', 1, Len(commandQueue)) = commandQueue
              /\ commandQueue # << >> => event'.kind = "none" ]_vars

C33_Witness ==
  /\ isConnected
  /\ Len(commandQueue) = 2
  /\ commandQueue[1].sequence = 0
  /\ commandQueue[2].sequence = 1
  /\ event.kind = "none"
  /\ waited = 0

(* C34: each request is queued with the sequence number after that of the
   request queued before it, 0 following 255, and the counter stays in
   0 .. 255 and goes from 255 to 0. *)
C34_SequenceModulo ==
  [][ /\ commandSequence' \in 0 .. 255
      /\ Len(commandQueue') > Len(commandQueue)
           => LET new == commandQueue'[Len(commandQueue')] IN
                /\ new.sequence = commandSequence
                /\ commandSequence' = IF commandSequence = 255 THEN 0 ELSE commandSequence + 1
                /\ commandQueue # << >>
                     => LET last == commandQueue[Len(commandQueue)].sequence IN
                          new.sequence = IF last = 255 THEN 0 ELSE last + 1 ]_vars

C34_Witness ==
  /\ Len(commandQueue) = 257
  /\ commandQueue[256].sequence = 255
  /\ commandQueue[257].sequence = 0
  /\ commandSequence = 1

(* C35: in a connected session, a response to the request at the head of
   the command queue removes that request from the queue. *)
C35_ResponseAdvancesQueue ==
  [][ ( /\ isConnected
        /\ event'.kind = "response"
        /\ commandQueue # << >>
        /\ event'.slot = commandQueue[1].sequence )
      => commandQueue' = Tail(commandQueue) ]_vars

(* C36: a watch or unwatch of an ordinary slot, one below numStatus, that
   begins right after a superwatch has resolved in a connected session leaves
   the callback that superwatch installed in place. *)
C36_SuperwatchReserved ==
  [][ ( /\ isConnected
        /\ settled.op = "superwatch"
        /\ settled.pc = "resolved"
        /\ watcherCb[SLOT_SUPERWATCH] = settled.cb
        /\ CallBegins
        /\ Began.op \in {"watch", "unwatch"}
        /\ Began.slot < numStatus )
      => watcherCb'[SLOT_SUPERWATCH] = watcherCb[SLOT_SUPERWATCH] ]_vars

(* C37: isConnected() is false while a connect() is still discovering,
   reading or subscribing, that is until the inspection has succeeded. *)
C37_ConnectedOnlyWhenReady ==
  isConnected => connPc \notin {"bleConnect", "discover", "read", "subscribe"}

(* C38: when an unwatchAll() that no other call overlapped resolves in a
   connected session with every status characteristic found, its
   unsubscribes all answered, no ordinary slot has a callback installed and
   none is subscribed. *)
C38_UnwatchAllClears ==
  ( /\ isConnected
    /\ settled.op = "unwatchAll"
    /\ settled.pc = "resolved"
    /\ settled.clean
    /\ statusChar = StatusSlots
    /\ pendUnsub = {} )
  => \A s \in StatusSlots : ~ IsFunction(watcherCb[s]) /\ s \notin subscribed

(* C39: in a connected session the callback table holds no callback at an
   index from numStatus on. *)
C39_TableInRange ==
  isConnected => \A s \in TableIndex : s >= numStatus => ~ IsFunction(watcherCb[s])

(* What is compared of a call: where it stands, its error, the commands it
   sent and how many unsubscribes and subscribes it issued. *)
View(c) ==
  [pc |-> c.pc, err |-> c.err, sent |-> c.sent, nunsub |-> c.nunsub, nsub |-> c.nsub]

(* The setWatchers() record b read as the watch call n. *)
Lift(b, n) ==
  [n EXCEPT !.pc = IF b.outcome # "none" THEN b.outcome ELSE b.pc,
            !.err = b.err,
            !.sent = b.sent,
            !.nunsub = Cardinality(b.unsubOk \cup b.unsubFailed \cup b.unsubLeft),
            !.nsub = Cardinality(b.subIssued)]

(* C40: in a connected session every step of setWatchers applied to the one
   Watcher(s, id, address, length, cb) with s below numStatus is the step
   watch(s, id, address, length, cb) takes there: the same callback
   installed, the same unsubscribe, WATCH command (length 1 when it was
   omitted) and subscribe issued, the same change of the subscription, and
   the same resolution or rejection. *)
C40_SingleWatcherIsWatch ==
  [][ ( /\ isConnected
        /\ sessionEvent' = "none"
        /\ batch' # Rested(batch)
        /\ Len(batch'.list) = 1
        /\ SlotValid(batch'.list[1].slot) )
      => \E a \in WatchInputs :
           LET w == batch'.list[1]
               s == w.slot
               n == NewCall("watch", s, a, a.cb, << >>)
               c == Lift(batch, n)
               r == batch'.reply
               good == ~ r.err /\ r.exceptionCode = 0 /\ r.values # << >> /\ r.values[1] = 0
               expected ==
                 IF Rested(batch) = NoBatch
                   THEN UnsubscribeIssue(n, s \in statusChar)
                 ELSE IF batch.pc = "unsub"
                   THEN IF batch'.unsubOk # {}
                          THEN CommandIssue(c, OP_WATCH,
                                            WatchPayload(s, a.id, a.address, a.length))
                          ELSE Rejected(c, "UnsubscribeFailed")
                 ELSE IF batch.pc \in {"cmd", "cmdLost"}
                   THEN IF good THEN SubscribeIssue(c, s \in statusChar)
                                ELSE Rejected(c, "CommandFailed")
                 ELSE IF s \in subscribed' THEN [c EXCEPT !.pc = "resolved"]
                 ELSE Rejected(c, "SubscribeFailed")
           IN /\ w = Watcher(s, a.id, a.address, a.length, a.cb)
              /\ View(Lift(batch', n)) = View(expected)
              /\ watcherCb' = IF Rested(batch) = NoBatch
                                THEN Install(watcherCb, s, a.cb) ELSE watcherCb
              /\ subscribed' =
                   IF batch.pc = "unsub" /\ batch'.unsubOk # {} THEN subscribed \ {s}
                   ELSE IF batch.pc = "sub" /\ batch'.outcome = "resolved"
                     THEN subscribed \cup {s}
                   ELSE subscribed ]_vars

C40_Witness ==
  /\ isConnected
  /\ batch.now
  /\ batch.outcome = "resolved"
  /\ batch.list = << [slot |-> 16, id |-> 1, address |-> 95, length |-> 1, cb |-> "cb1"] >>
  /\ batch.sent = << [unit |-> 254, op |-> 2, payload |-> << 16, 1, 0, 95, 1 >>] >>
  /\ subscribed = {16}
  /\ watcherCb[16] = "cb1"

====
